---- MODULE Spec2Model ----
(***************************************************************************)
(* Task lifecycle and retention subsystem of the YouTube downloader:       *)
(* the in-memory task registry (app.py `tasks`), the background worker     *)
(* download_video with its progress hook, the durable `downloads` table,   *)
(* and the cron garbage collector of cleanup.py.                           *)
(*                                                                         *)
(* Python dicts are functions whose DOMAIN is the set of keys present, so  *)
(* "key missing" and "key set" are different states.  One worker step is   *)
(* one statement of download_video that reads or writes shared state (the  *)
(* registry, the two directories, the table, the clock).                   *)
(*                                                                         *)
(* Spec is the whole system: /download, the pool, the collector and the    *)
(* clock.  SpecPool follows more submissions with the pool alone.          *)
(* SpecExpiry applies calculate_expiry to every duration in range.         *)
(* SpecRestart adds a restart of the serving process to Spec; SpecTwice    *)
(* ends Spec with two cleanup_expired runs in a row.  SpecQueue submits    *)
(* more calls than the pool has threads, SpecQueueFair schedules them      *)
(* fairly, SpecReuse lets task ids repeat.  SpecAbandon follows a task     *)
(* through a restart and repeated collector runs, SpecAbandonFair with the *)
(* clock advancing and unlinks succeeding in the end.                      *)
(***************************************************************************)
EXTENDS Integers, Sequences, FiniteSets, TLC

\* ------------------------------------------------------------------ bounds
MaxJobs == 1        \* submissions followed together with the collector and the clock
PoolJobs == 2       \* submissions followed when only the pool runs
MaxFiles == 2       \* staging files one fetch may write (video part, audio part)
MaxHours == 2       \* the clock is followed up to MaxHours hours (+1 s)
MaxBytes == 3       \* largest downloaded_bytes a hook event reports
FileSize == 2       \* the total_bytes / total_bytes_estimate a hook event reports
QueueJobs == 4      \* submissions followed when the pool is filled (> max_workers)
MaxDuration == 10801 \* largest duration handed to calculate_expiry on its own

\* -------------------------------------------------------- program constants
max_workers == 3    \* ThreadPoolExecutor(max_workers=3)
two_hours == 7200   \* calculate_expiry: 2 * 60 * 60
orphan_age == 3600  \* cleanup_orphaned_files: age > 3600

VARIABLES
    now,              \* time.time(), whole seconds
    tasks,            \* app.py `tasks`: task_id -> dict
    db,               \* table downloads: id -> row
    staging,          \* files of downloaded/: <<task_id, k>> -> st_mtime
    converted,        \* files of converted/: set of final paths
    nsub,             \* submissions made so far
    jid,              \* jid[j]: the task_id argument of the j-th download_video call
    pc,               \* pc[j]: position of the j-th download_video call
    info,             \* info[j]: what extract_info returned to call j
    todo,             \* todo[j]: files the glob of call j still has to yield
    source_file,      \* source_file[j]: downloaded_files[0] of call j
    expiry_timestamp, \* expiry_timestamp[j]: local of save_download_record
    exc,              \* exc[j]: the exception call j caught (str(e)), "" if none
    gc_pc,            \* position of the cleanup.py process
    gc_expired,       \* records get_expired_records returned, not yet processed
    gc_record,        \* the record whose file was just deleted
    gc_files,         \* files the orphan sweep's glob still has to yield
    gc_failed,        \* ids whose last deletion attempt logged "Could not delete"
    deleted_count,    \* what the current (or last) cleanup_expired run returns
    twice,            \* two cleanup_expired runs in a row: how far, what run 1 did
    duration_arg,     \* argument of a stand-alone calculate_expiry call
    expiry_ret        \* its return value (-1: not called yet)

vars == <<now, tasks, db, staging, converted, nsub, jid, pc, info, todo,
          source_file, expiry_timestamp, exc, gc_pc, gc_expired, gc_record,
          gc_files, gc_failed, deleted_count, twice, duration_arg,
          expiry_ret>>

jobvars == <<nsub, jid, pc, info, todo, source_file, expiry_timestamp, exc>>
gcvars == <<gc_pc, gc_expired, gc_record, gc_files, gc_failed, deleted_count,
           twice>>
purevars == <<duration_arg, expiry_ret>>

\* ----------------------------------------------------------------- helpers
Max(a, b) == IF a >= b THEN a ELSE b
Jobs == 1..Max(Max(MaxJobs, PoolJobs), QueueJobs)
FileNos == 1..MaxFiles
NoFile == <<0, 0>>
NoInfo == [title |-> "", duration |-> -1]
NoRecord == [id |-> 0, filepath |-> <<"converted", 0>>]
NotTwice == [phase |-> "live", failed1 |-> FALSE, deleted1 |-> 0]

\* The instants the clock is sampled at: the program compares ages and
\* expiries against 3600 and 7200, so whole hours and one second past them.
Instants == {t \in 0..(MaxHours * orphan_age + 1) : t % orphan_age <= 1}

\* d[k] = v on a dict
SetItem(d, k, v) == (k :> v) @@ d

\* tasks[task_id][k] = v
SetTask(task_id, k, v) == [tasks EXCEPT ![task_id] = SetItem(@, k, v)]

\* Durations the fetcher reports (info['duration']); -1 stands for None.
Durations == {30, 10800, -1}

\* Remove key k from a dict / a file from a directory
Without(d, k) == [x \in DOMAIN d \ {k} |-> d[x]]

\* DOWNLOADED_DIR.glob(f"{task_id}_*")
Glob(task_id) == {f \in DOMAIN staging : f[1] = task_id}

\* CONVERTED_DIR / f"{task_id}_{safe_title}.{final_ext}"
final_path(task_id) == <<"converted", task_id>>
final_filename(task_id) == <<"name", task_id>>

\* Mutant: a pool thread is never handed back
Busy_never_freed == {j \in Jobs : pc[j] \notin {"none", "queued"}}

\* Calls that hold a pool thread
Busy == {j \in Jobs : pc[j] \notin {"none", "queued", "done"}}

\* ---------------------------------------------------------- pure functions
\* Mutant: min() in place of max()
calculate_expiry_min(duration_seconds) ==
    IF two_hours <= duration_seconds THEN two_hours ELSE duration_seconds

\* calculate_expiry(duration_seconds)
calculate_expiry(duration_seconds) == Max(two_hours, duration_seconds)

\* int((downloaded / total) * 100): the byte counts drawn below divide
\* exactly in floating point (or leave a fraction far from an integer), so
\* truncation of the float equals integer division.
Percent(downloaded, total) == (downloaded * 100) \div total

\* Mutant: a 'downloading' event also writes the status back
progress_hook_sets_downloading(task_id, d) ==
    IF d.status = "downloading"
    THEN SetTask(task_id, "status", "downloading")
    ELSE IF d.status = "finished"
    THEN [tasks EXCEPT ![task_id] =
             SetItem(SetItem(@, "status", "converting"), "progress", 100)]
    ELSE tasks

\* progress_hook(d) of the call for task_id: the registry after the call.
\* d.total_bytes / d.total_bytes_estimate are 0 when absent or None.
progress_hook(task_id, d) ==
    IF d.status = "downloading"
    THEN LET total == IF d.total_bytes # 0 THEN d.total_bytes
                      ELSE d.total_bytes_estimate
         IN IF total > 0
            THEN SetTask(task_id, "progress", Percent(d.downloaded_bytes, total))
            ELSE tasks
    ELSE IF d.status = "finished"
    THEN [tasks EXCEPT ![task_id] =
             SetItem(SetItem(@, "status", "converting"), "progress", 100)]
    ELSE tasks

\* The events yt-dlp may hand to the hook
HookEvents ==
    [status : {"downloading"}, downloaded_bytes : 0..MaxBytes,
     total_bytes : {0, FileSize}, total_bytes_estimate : {0, FileSize}]
    \cup
    [status : {"finished"}, downloaded_bytes : {0},
     total_bytes : {0}, total_bytes_estimate : {0}]

\* -------------------------------------------------------------------- Init
InitSystem ==
    /\ now = 0
    /\ tasks = <<>>
    /\ db = <<>>
    /\ staging = <<>>
    /\ converted = {}
    /\ nsub = 0
    /\ jid = [j \in Jobs |-> 0]
    /\ pc = [j \in Jobs |-> "none"]
    /\ info = [j \in Jobs |-> NoInfo]
    /\ todo = [j \in Jobs |-> {}]
    /\ source_file = [j \in Jobs |-> NoFile]
    /\ expiry_timestamp = [j \in Jobs |-> -1]
    /\ exc = [j \in Jobs |-> ""]
    /\ gc_pc = "idle"
    /\ gc_expired = {}
    /\ gc_record = NoRecord
    /\ gc_files = {}
    /\ gc_failed = {}
    /\ deleted_count = 0
    /\ twice = NotTwice

Init ==
    /\ InitSystem
    /\ duration_arg = 0
    /\ expiry_ret = -1

\* ------------------------------------------------------------------- clock
Tick ==
    /\ \E t \in Instants : t > now /\ now' = t
    /\ UNCHANGED <<tasks, db, staging, converted, jobvars, gcvars, purevars>>

\* ----------------------------------------------------------- /download
\* str(uuid.uuid4())[:8], each draw taken to return an identifier not drawn
\* before; identifiers are numbered in the order they are drawn.  (A draw
\* that repeats an identifier replaces the registry entry of the earlier
\* task: start_download(task_id) below is written for any task_id.)
FreshIds == {nsub + 1}

\* start_download, after the URL checks: register the task, submit the call
start_download(task_id) ==
    /\ nsub' = nsub + 1
    /\ tasks' = SetItem(tasks, task_id,
                  [status |-> "queued", progress |-> 0, url |-> "clean_url",
                   quality |-> "best", format_type |-> "video+audio",
                   video_id |-> "video_id"])
    /\ jid' = [jid EXCEPT ![nsub + 1] = task_id]
    /\ pc' = [pc EXCEPT ![nsub + 1] = "queued"]
    /\ UNCHANGED <<now, db, staging, converted, info, todo, source_file,
                   expiry_timestamp, exc, gcvars, purevars>>

\* ------------------------------------------------------- download_video
\* Mutant: a pool without max_workers
Pickup_unbounded(j) ==
    /\ pc[j] = "queued"
    /\ \A k \in 1..(j - 1) : pc[k] # "queued"
    /\ pc' = [pc EXCEPT ![j] = "L251"]
    /\ UNCHANGED <<now, tasks, db, staging, converted, nsub, jid, info, todo,
                   source_file, expiry_timestamp, exc, gcvars, purevars>>

\* A pool thread takes the oldest queued call
Pickup(j) ==
    /\ pc[j] = "queued"
    /\ \A k \in 1..(j - 1) : pc[k] # "queued"
    /\ Cardinality(Busy) < max_workers
    /\ pc' = [pc EXCEPT ![j] = "L251"]
    /\ UNCHANGED <<now, tasks, db, staging, converted, nsub, jid, info, todo,
                   source_file, expiry_timestamp, exc, gcvars, purevars>>

\* The except clause is entered with cause e
Raise(j, e) ==
    /\ pc' = [pc EXCEPT ![j] = "L368"]
    /\ exc' = [exc EXCEPT ![j] = e]

\* A statement that only writes one key of the task's entry
SetStep(j, from, k, v, to) ==
    /\ pc[j] = from
    /\ tasks' = SetTask(jid[j], k, v)
    /\ pc' = [pc EXCEPT ![j] = to]
    /\ UNCHANGED <<now, db, staging, converted, nsub, jid, info, todo,
                   source_file, expiry_timestamp, exc, gcvars, purevars>>

\* tasks[task_id]['status'] = 'downloading'
L251(j) == SetStep(j, "L251", "status", "downloading", "L252")

\* tasks[task_id]['progress'] = 0
L252(j) == SetStep(j, "L252", "progress", 0, "L324")

\* ydl.extract_info(url, download=True): the fetcher writes a staging file
FetcherWrite(j, k) ==
    /\ pc[j] = "L324"
    /\ staging' = SetItem(staging, <<jid[j], k>>, now)
    /\ staging' # staging
    /\ UNCHANGED <<now, tasks, db, converted, jobvars, gcvars, purevars>>

\* ... calls the progress hook
Hook(j, d) ==
    /\ pc[j] = "L324"
    /\ tasks' = progress_hook(jid[j], d)
    /\ UNCHANGED <<now, db, staging, converted, jobvars, gcvars, purevars>>

\* ... raises
FetcherRaise(j) ==
    /\ pc[j] = "L324"
    /\ Raise(j, "FetchError")
    /\ UNCHANGED <<now, tasks, db, staging, converted, nsub, jid, info, todo,
                   source_file, expiry_timestamp, gcvars, purevars>>

\* ... returns info
FetcherReturn(j, duration) ==
    /\ pc[j] = "L324"
    /\ info' = [info EXCEPT ![j] = [title |-> "title", duration |-> duration]]
    /\ pc' = [pc EXCEPT ![j] = "L327"]
    /\ UNCHANGED <<now, tasks, db, staging, converted, nsub, jid, todo,
                   source_file, expiry_timestamp, exc, gcvars, purevars>>

\* tasks[task_id]['status'] = 'converting'
L327(j) == SetStep(j, "L327", "status", "converting", "L330")

\* downloaded_files = list(glob); raise if empty; source_file = downloaded_files[0]
L330(j) ==
    /\ pc[j] = "L330"
    /\ IF Glob(jid[j]) = {}
       THEN /\ Raise(j, "Downloaded file not found")
            /\ UNCHANGED source_file
       ELSE /\ \E f \in Glob(jid[j]) : source_file' = [source_file EXCEPT ![j] = f]
            /\ pc' = [pc EXCEPT ![j] = "L343"]
            /\ UNCHANGED exc
    /\ UNCHANGED <<now, tasks, db, staging, converted, nsub, jid, info, todo,
                   expiry_timestamp, gcvars, purevars>>

\* Mutant: the staging file is removed but nothing lands in converted/
L343_moves_nothing(j, io_ok) ==
    /\ pc[j] = "L343"
    /\ IF source_file[j] \in DOMAIN staging /\ io_ok
       THEN /\ staging' = Without(staging, source_file[j])
            /\ pc' = [pc EXCEPT ![j] = "L346"]
            /\ UNCHANGED <<exc, converted>>
       ELSE /\ Raise(j, "MoveError")
            /\ UNCHANGED <<staging, converted>>
    /\ UNCHANGED <<now, tasks, db, nsub, jid, info, todo, source_file,
                   expiry_timestamp, gcvars, purevars>>

\* shutil.move(str(source_file), str(final_path)); io_ok: the rename succeeds
L343(j, io_ok) ==
    /\ pc[j] = "L343"
    /\ IF source_file[j] \in DOMAIN staging /\ io_ok
       THEN /\ staging' = Without(staging, source_file[j])
            /\ converted' = converted \cup {final_path(jid[j])}
            /\ pc' = [pc EXCEPT ![j] = "L346"]
            /\ UNCHANGED exc
       ELSE /\ Raise(j, "MoveError")
            /\ UNCHANGED <<staging, converted>>
    /\ UNCHANGED <<now, tasks, db, nsub, jid, info, todo, source_file,
                   expiry_timestamp, gcvars, purevars>>

\* for f in DOWNLOADED_DIR.glob(f"{task_id}_*"): the directory is listed
L346(j) ==
    /\ pc[j] = "L346"
    /\ todo' = [todo EXCEPT ![j] = Glob(jid[j])]
    /\ pc' = [pc EXCEPT ![j] = IF Glob(jid[j]) = {} THEN "L71" ELSE "L347"]
    /\ UNCHANGED <<now, tasks, db, staging, converted, nsub, jid, info,
                   source_file, expiry_timestamp, exc, gcvars, purevars>>

\* f.unlink(); io_ok: the unlink succeeds
L347(j, f, io_ok) ==
    /\ pc[j] = "L347"
    /\ f \in todo[j]
    /\ IF f \in DOMAIN staging /\ io_ok
       THEN /\ staging' = Without(staging, f)
            /\ todo' = [todo EXCEPT ![j] = @ \ {f}]
            /\ pc' = [pc EXCEPT ![j] = IF todo[j] = {f} THEN "L71" ELSE "L347"]
            /\ UNCHANGED exc
       ELSE /\ Raise(j, "UnlinkError")
            /\ UNCHANGED <<staging, todo>>
    /\ UNCHANGED <<now, tasks, db, converted, nsub, jid, info, source_file,
                   expiry_timestamp, gcvars, purevars>>

\* save_download_record: expiry_seconds = calculate_expiry(duration_seconds);
\* expiry_timestamp = time.time() + expiry_seconds.  max() of a None
\* duration raises TypeError.
L71(j) ==
    /\ pc[j] = "L71"
    /\ IF info[j].duration = -1
       THEN /\ Raise(j, "TypeError")
            /\ UNCHANGED expiry_timestamp
       ELSE /\ expiry_timestamp' = [expiry_timestamp EXCEPT ![j] =
                                      now + calculate_expiry(info[j].duration)]
            /\ pc' = [pc EXCEPT ![j] = "L80"]
            /\ UNCHANGED exc
    /\ UNCHANGED <<now, tasks, db, staging, converted, nsub, jid, info, todo,
                   source_file, gcvars, purevars>>

\* The row INSERT OR REPLACE writes; created_at is a second time.time()
Row(j) ==
    [id |-> jid[j], video_id |-> "video_id", title |-> info[j].title,
     filepath |-> final_path(jid[j]), duration_seconds |-> info[j].duration,
     expiry_timestamp |-> expiry_timestamp[j], format_info |-> "best_video+audio",
     status |-> "ready", created_at |-> now]

\* connect, execute, commit; io_ok: sqlite raises nothing
L80(j, io_ok) ==
    /\ pc[j] = "L80"
    /\ IF io_ok
       THEN /\ db' = SetItem(db, jid[j], Row(j))
            /\ pc' = [pc EXCEPT ![j] = "L361"]
            /\ UNCHANGED exc
       ELSE /\ Raise(j, "DbError")
            /\ UNCHANGED db
    /\ UNCHANGED <<now, tasks, staging, converted, nsub, jid, info, todo,
                   source_file, expiry_timestamp, gcvars, purevars>>

L361(j) == SetStep(j, "L361", "status", "ready", "L362")
L362(j) == SetStep(j, "L362", "filepath", final_path(jid[j]), "L363")
L363(j) == SetStep(j, "L363", "filename", final_filename(jid[j]), "L364")
L364(j) == SetStep(j, "L364", "expiry", expiry_timestamp[j], "L365")

\* The call returns: its locals are gone (exc is kept as the record of what
\* the call caught)
Return(j) ==
    /\ pc' = [pc EXCEPT ![j] = "done"]
    /\ info' = [info EXCEPT ![j] = NoInfo]
    /\ todo' = [todo EXCEPT ![j] = {}]
    /\ source_file' = [source_file EXCEPT ![j] = NoFile]
    /\ expiry_timestamp' = [expiry_timestamp EXCEPT ![j] = -1]
    /\ UNCHANGED <<now, db, staging, converted, nsub, jid, exc, gcvars, purevars>>

L365(j) ==
    /\ pc[j] = "L365"
    /\ tasks' = SetTask(jid[j], "title", info[j].title)
    /\ Return(j)

\* Mutant: the handler also resets the progress
L368_resets_progress(j) ==
    /\ pc[j] = "L368"
    /\ tasks' = [tasks EXCEPT ![jid[j]] =
                    SetItem(SetItem(@, "status", "error"), "progress", 0)]
    /\ pc' = [pc EXCEPT ![j] = "L369"]
    /\ UNCHANGED <<now, db, staging, converted, nsub, jid, info, todo,
                   source_file, expiry_timestamp, exc, gcvars, purevars>>

\* except Exception as e:
L368(j) == SetStep(j, "L368", "status", "error", "L369")
L369(j) ==
    /\ pc[j] = "L369"
    /\ tasks' = SetTask(jid[j], "error", exc[j])
    /\ Return(j)

\* ------------------------------------------------------------ /status
\* dict.get(k) as a set: {} is None
Get(d, k) == IF k \in DOMAIN d THEN {d[k]} ELSE {}

\* Mutant: no look into the table when the registry has no entry
get_status_registry_only(task_id) ==
    IF task_id \notin DOMAIN tasks
    THEN [code |-> 404, body |-> [error |-> {"Task not found"}]]
    ELSE LET task == tasks[task_id]
             response == [status |-> task.status, progress |-> task.progress]
         IN [code |-> 200,
             body |-> IF task.status = "ready"
                      THEN [title |-> Get(task, "title"),
                            filename |-> Get(task, "filename"),
                            expiry |-> Get(task, "expiry")] @@ response
                      ELSE IF task.status = "error"
                      THEN [error |-> Get(task, "error")] @@ response
                      ELSE response]

\* get_status(task_id): the status code and the JSON body
get_status(task_id) ==
    IF task_id \notin DOMAIN tasks
    THEN IF task_id \in DOMAIN db
         THEN [code |-> 200,
               body |-> [status |-> "ready", title |-> {db[task_id].title},
                         expiry |-> {db[task_id].expiry_timestamp}]]
         ELSE [code |-> 404, body |-> [error |-> {"Task not found"}]]
    ELSE LET task == tasks[task_id]
             response == [status |-> task.status, progress |-> task.progress]
         IN [code |-> 200,
             body |-> IF task.status = "ready"
                      THEN [title |-> Get(task, "title"),
                            filename |-> Get(task, "filename"),
                            expiry |-> Get(task, "expiry")] @@ response
                      ELSE IF task.status = "error"
                      THEN [error |-> Get(task, "error")] @@ response
                      ELSE response]

\* Path(filepath).name of a file of converted/
PathName(filepath) == <<"name", filepath[2]>>

\* The download_name 'download' that stands in for a missing filename
DefaultName == <<"name", 0>>

\* Mutant: no look into the table when the registry has no filepath
download_file_registry_only(task_id) ==
    IF task_id \in DOMAIN tasks /\ "filepath" \in DOMAIN tasks[task_id]
    THEN IF tasks[task_id].filepath \notin converted
         THEN [code |-> 404, error |-> "File no longer exists",
               filepath |-> NoRecord.filepath, download_name |-> DefaultName]
         ELSE [code |-> 200, error |-> "",
               filepath |-> tasks[task_id].filepath,
               download_name |-> IF "filename" \in DOMAIN tasks[task_id]
                                 THEN tasks[task_id].filename
                                 ELSE DefaultName]
    ELSE [code |-> 404, error |-> "File not found",
          filepath |-> NoRecord.filepath, download_name |-> DefaultName]

\* Mutant: the file is sent without looking whether it exists
download_file_unchecked(task_id) ==
    IF task_id \in DOMAIN tasks /\ "filepath" \in DOMAIN tasks[task_id]
    THEN [code |-> 200, error |-> "",
          filepath |-> tasks[task_id].filepath,
          download_name |-> IF "filename" \in DOMAIN tasks[task_id]
                            THEN tasks[task_id].filename ELSE DefaultName]
    ELSE IF task_id \in DOMAIN db
    THEN [code |-> 200, error |-> "",
          filepath |-> db[task_id].filepath,
          download_name |-> PathName(db[task_id].filepath)]
    ELSE [code |-> 404, error |-> "File not found",
          filepath |-> NoRecord.filepath, download_name |-> DefaultName]

\* download_file(task_id): the status code, the error of a 404, and the
\* file and download_name handed to send_file on a 200
download_file(task_id) ==
    LET found ==
            IF task_id \in DOMAIN tasks /\ "filepath" \in DOMAIN tasks[task_id]
            THEN {[filepath |-> tasks[task_id].filepath,
                   filename |-> IF "filename" \in DOMAIN tasks[task_id]
                                THEN tasks[task_id].filename ELSE DefaultName]}
            ELSE IF task_id \in DOMAIN db
            THEN {[filepath |-> db[task_id].filepath,
                   filename |-> PathName(db[task_id].filepath)]}
            ELSE {}
        missing(e) == [code |-> 404, error |-> e,
                       filepath |-> NoRecord.filepath,
                       download_name |-> DefaultName]
    IN IF found = {}
       THEN missing("File not found")
       ELSE LET r == CHOOSE x \in found : TRUE
            IN IF r.filepath \notin converted
               THEN missing("File no longer exists")
               ELSE [code |-> 200, error |-> "", filepath |-> r.filepath,
                     download_name |-> r.filename]

\* ------------------------------------------------------------ cleanup.py
\* Mutant: <= in place of <
get_expired_records_at_expiry ==
    {[id |-> db[i].id, filepath |-> db[i].filepath] :
        i \in {x \in DOMAIN db : db[x].expiry_timestamp <= now}}

\* get_expired_records: SELECT ... WHERE expiry_timestamp < time.time()
get_expired_records ==
    {[id |-> db[i].id, filepath |-> db[i].filepath] :
        i \in {x \in DOMAIN db : db[x].expiry_timestamp < now}}

\* cleanup_expired starts: expired = get_expired_records()
GcStart ==
    /\ gc_pc = "idle"
    /\ gc_expired' = get_expired_records
    /\ deleted_count' = 0
    /\ gc_pc' = "L94"
    /\ UNCHANGED <<now, tasks, db, staging, converted, jobvars, gc_record,
                   gc_files, gc_failed, twice, purevars>>

\* delete_file_safely(filepath), given whether the unlink succeeds:
\* <<return value, files of converted/ afterwards>>
delete_file_safely(filepath, io_ok) ==
    IF filepath \in converted
    THEN IF io_ok THEN <<TRUE, converted \ {filepath}>>
                  ELSE <<FALSE, converted>>
    ELSE <<TRUE, converted>>

\* Mutant: the return value of delete_file_safely is ignored
RecordMayGo_always(deleted) == TRUE

\* What cleanup_expired does with the return value: TRUE goes on to
\* remove_db_record, FALSE logs "Could not delete" and takes the next record
RecordMayGo(deleted) == deleted

\* for record in expired: if delete_file_safely(record['filepath']): ...
GcDeleteFile(r, io_ok) ==
    /\ gc_pc = "L94"
    /\ r \in gc_expired
    /\ LET res == delete_file_safely(r.filepath, io_ok)
       IN /\ converted' = res[2]
          /\ IF RecordMayGo(res[1])
             THEN /\ gc_record' = r
                  /\ gc_pc' = "L100"
                  /\ gc_failed' = gc_failed \ {r.id}
                  /\ UNCHANGED gc_expired
             ELSE /\ gc_failed' = gc_failed \cup {r.id}
                  /\ gc_expired' = gc_expired \ {r}
                  /\ UNCHANGED <<gc_record, gc_pc>>
    /\ UNCHANGED <<now, tasks, db, staging, jobvars, gc_files, deleted_count,
                   twice, purevars>>

\* Mutant: the DELETE is never committed
remove_db_record_uncommitted(record_id) == db

\* remove_db_record(record_id): DELETE FROM downloads WHERE id = ?; the
\* table afterwards
remove_db_record(record_id) == Without(db, record_id)

\* remove_db_record(record['id']); deleted_count += 1
GcRemoveRecord ==
    /\ gc_pc = "L100"
    /\ db' = remove_db_record(gc_record.id)
    /\ deleted_count' = deleted_count + 1
    /\ gc_expired' = gc_expired \ {gc_record}
    /\ gc_record' = NoRecord
    /\ gc_pc' = "L94"
    /\ UNCHANGED <<now, tasks, staging, converted, jobvars, gc_files,
                   gc_failed, twice, purevars>>

\* cleanup_expired returns; cleanup_orphaned_files lists downloaded/
GcOrphanGlob ==
    /\ gc_pc = "L94"
    /\ gc_expired = {}
    /\ gc_files' = DOMAIN staging
    /\ gc_pc' = IF DOMAIN staging = {} THEN "idle" ELSE "L117"
    /\ UNCHANGED <<now, tasks, db, staging, converted, jobvars, gc_expired,
                   gc_record, gc_failed, deleted_count, twice, purevars>>

\* Mutant: >= in place of >
IsOrphan_at_threshold(f) == now - staging[f] >= orphan_age

\* The files the orphan sweep unlinks: age = time.time() - st_mtime > 3600
IsOrphan(f) == now - staging[f] > orphan_age

\* One file of the orphan loop; io_ok: the unlink succeeds
GcOrphan(f, io_ok) ==
    /\ gc_pc = "L117"
    /\ f \in gc_files
    /\ gc_files' = gc_files \ {f}
    /\ gc_pc' = IF gc_files = {f} THEN "idle" ELSE "L117"
    /\ staging' = IF f \in DOMAIN staging /\ IsOrphan(f) /\ io_ok
                  THEN Without(staging, f)
                  ELSE staging
    /\ UNCHANGED <<now, tasks, db, converted, jobvars, gc_expired, gc_record,
                   gc_failed, deleted_count, twice, purevars>>

\* ------------------------------------------------------------------- Next
Worker(j) ==
    \/ Pickup(j)
    \/ L251(j)
    \/ L252(j)
    \/ \E k \in FileNos : FetcherWrite(j, k)
    \/ \E d \in HookEvents : Hook(j, d)
    \/ FetcherRaise(j)
    \/ \E duration \in Durations : FetcherReturn(j, duration)
    \/ L327(j)
    \/ L330(j)
    \/ \E io_ok \in BOOLEAN : L343(j, io_ok)
    \/ L346(j)
    \/ \E f \in todo[j], io_ok \in BOOLEAN : L347(j, f, io_ok)
    \/ L71(j)
    \/ \E io_ok \in BOOLEAN : L80(j, io_ok)
    \/ L361(j)
    \/ L362(j)
    \/ L363(j)
    \/ L364(j)
    \/ L365(j)
    \/ L368(j)
    \/ L369(j)

Collector ==
    \/ GcStart
    \/ \E r \in gc_expired, io_ok \in BOOLEAN : GcDeleteFile(r, io_ok)
    \/ GcRemoveRecord
    \/ GcOrphanGlob
    \/ \E f \in gc_files, io_ok \in BOOLEAN : GcOrphan(f, io_ok)

\* The whole system: one process serving /download with its pool, the
\* cron collector, the clock
Next ==
    \/ Tick
    \/ nsub < MaxJobs /\ \E task_id \in FreshIds : start_download(task_id)
    \/ \E j \in Jobs : Worker(j)
    \/ Collector

Spec == Init /\ [][Next]_vars

\* Several submissions sharing the pool, with no collector run and the
\* clock standing still
NextPool ==
    \/ nsub < PoolJobs /\ \E task_id \in FreshIds : start_download(task_id)
    \/ \E j \in Jobs : Worker(j)

SpecPool == Init /\ [][NextPool]_vars

\* The serving process is stopped and started again: the registry and the
\* pool start empty, every call in flight is gone; the two directories and
\* the table are as they were.  Identifiers drawn before are not drawn again.
Restart ==
    /\ tasks # <<>>
    /\ tasks' = <<>>
    /\ jid' = [j \in Jobs |-> 0]
    /\ pc' = [j \in Jobs |-> "none"]
    /\ info' = [j \in Jobs |-> NoInfo]
    /\ todo' = [j \in Jobs |-> {}]
    /\ source_file' = [j \in Jobs |-> NoFile]
    /\ expiry_timestamp' = [j \in Jobs |-> -1]
    /\ exc' = [j \in Jobs |-> ""]
    /\ UNCHANGED <<now, db, staging, converted, nsub, gcvars, purevars>>

NextRestart ==
    \/ Next
    \/ Restart

SpecRestart == Init /\ [][NextRestart]_vars

\* cleanup_expired is about to be run twice in a row (as test_cleanup and a
\* caller of the function do, without the orphan sweep): from here on the
\* application and the clock stand still
TwiceBegin ==
    /\ twice.phase = "live"
    /\ gc_pc = "idle"
    /\ twice' = [twice EXCEPT !.phase = "run1"]
    /\ UNCHANGED <<now, tasks, db, staging, converted, jobvars, gc_pc,
                   gc_expired, gc_record, gc_files, gc_failed, deleted_count,
                   purevars>>

\* return deleted_count: the first run notes what it did, the second ends
CleanupReturns ==
    /\ twice.phase \in {"run1", "run2"}
    /\ gc_pc = "L94"
    /\ gc_expired = {}
    /\ gc_pc' = "idle"
    /\ twice' = IF twice.phase = "run1"
                THEN [phase |-> "run2", failed1 |-> gc_failed # {},
                      deleted1 |-> deleted_count]
                ELSE [twice EXCEPT !.phase = "end"]
    /\ UNCHANGED <<now, tasks, db, staging, converted, jobvars, gc_expired,
                   gc_record, gc_files, gc_failed, deleted_count, purevars>>

\* The steps of one cleanup_expired call
CleanupExpired ==
    \/ GcStart
    \/ \E r \in gc_expired, io_ok \in BOOLEAN : GcDeleteFile(r, io_ok)
    \/ GcRemoveRecord

\* The whole system, until cleanup_expired is run twice in a row
NextTwice ==
    \/ twice.phase = "live" /\ Next
    \/ TwiceBegin
    \/ twice.phase \in {"run1", "run2"} /\ CleanupExpired
    \/ CleanupReturns

SpecTwice == Init /\ [][NextTwice]_vars

\* download_video with a fetcher that writes at most one file, reports no
\* progress and returns a 30 s video or raises, and with every file and
\* table operation succeeding
WorkerQueue(j) ==
    \/ Pickup(j)
    \/ L251(j)
    \/ L252(j)
    \/ FetcherWrite(j, 1)
    \/ FetcherRaise(j)
    \/ FetcherReturn(j, 30)
    \/ L327(j)
    \/ L330(j)
    \/ L343(j, TRUE)
    \/ L346(j)
    \/ L71(j)
    \/ L80(j, TRUE)
    \/ L361(j)
    \/ L362(j)
    \/ L363(j)
    \/ L364(j)
    \/ L365(j)
    \/ L368(j)
    \/ L369(j)

\* More submissions than pool threads
NextQueue ==
    \/ nsub < QueueJobs /\ \E task_id \in FreshIds : start_download(task_id)
    \/ \E j \in Jobs : WorkerQueue(j)

SpecQueue == Init /\ [][NextQueue]_vars

\* The same with fair scheduling: a pool thread that can take a step of its
\* call eventually takes one, and every fetcher call returns or raises
SpecQueueFair ==
    /\ SpecQueue
    /\ \A j \in Jobs : WF_vars(WorkerQueue(j))
    /\ \A j \in Jobs : WF_vars(FetcherRaise(j) \/ FetcherReturn(j, 30))

\* str(uuid.uuid4())[:8] as the code leaves it: eight hex digits that
\* nothing compares with the registry or the table, so a draw may return an
\* identifier drawn before as well as a new one
AnyIds == 1..(nsub + 1)

\* Submissions whose identifiers may repeat
NextReuse ==
    \/ nsub < PoolJobs /\ \E task_id \in AnyIds : start_download(task_id)
    \/ \E j \in Jobs : WorkerQueue(j)

SpecReuse == Init /\ [][NextReuse]_vars

\* A task handled within the first second, a restart of the serving process
\* at any time, and cron running cleanup.py again and again while the clock
\* advances
NextAbandon ==
    \/ Tick
    \/ now = 0 /\ nsub < MaxJobs
                /\ \E task_id \in FreshIds : start_download(task_id)
    \/ now = 0 /\ \E j \in Jobs : WorkerQueue(j)
    \/ Restart
    \/ Collector

SpecAbandon == Init /\ [][NextAbandon]_vars

\* The same with the clock advancing, the collector being run for ever, and
\* an unlink that is tried again and again succeeding in the end
SpecAbandonFair ==
    /\ SpecAbandon
    /\ WF_vars(Tick)
    /\ WF_vars(Collector)
    /\ SF_vars(\E r \in gc_expired : GcDeleteFile(r, TRUE))
    /\ \A f \in Jobs \X FileNos : SF_vars(GcOrphan(f, TRUE))

\* calculate_expiry called on its own, on any duration up to MaxDuration
InitExpiry ==
    /\ InitSystem
    /\ duration_arg \in 0..MaxDuration
    /\ expiry_ret = -1

CallCalculateExpiry ==
    /\ expiry_ret = -1
    /\ expiry_ret' = calculate_expiry(duration_arg)
    /\ UNCHANGED <<now, tasks, db, staging, converted, jobvars, gcvars,
                   duration_arg>>

SpecExpiry == InitExpiry /\ [][CallCalculateExpiry]_vars

\* ================================================================= claims
Task(j) == tasks[jid[j]]
InFlight == {"queued", "downloading", "converting"}
ResultKeys == {"filepath", "filename", "expiry", "title"}

\* C1: every change of a task's status follows one of the edges
\* queued->downloading, downloading->converting, converting->ready,
\* {queued, downloading, converting}->error; so ready and error are never
\* left and converting never goes back to downloading.
C1_Edges ==
    {<<"queued", "downloading">>, <<"downloading", "converting">>,
     <<"converting", "ready">>, <<"queued", "error">>,
     <<"downloading", "error">>, <<"converting", "error">>}

C1_StatusFollowsEdges ==
    [][\A id \in DOMAIN tasks :
          tasks'[id].status # tasks[id].status
              => <<tasks[id].status, tasks'[id].status>> \in C1_Edges]_vars

\* C1 witness: a 'downloading' event arrived after 'finished' (the progress
\* fell below 100) and the task is still converting.
C1_Witness ==
    \E id \in DOMAIN tasks :
        tasks[id].status = "converting" /\ tasks[id].progress < 100

\* C2: what a reader gets from get_status is never torn: a ready task has all
\* result fields and no error, an error task has its cause and no result
\* field, a task in flight has neither.
C2_NoTornRead ==
    \A id \in DOMAIN tasks :
        LET r == get_status(id).body
            keys == DOMAIN tasks[id]
        IN IF r.status = "ready"
           THEN /\ r.title # {} /\ r.filename # {} /\ r.expiry # {}
                /\ ResultKeys \subseteq keys
                /\ "error" \notin keys
           ELSE IF r.status = "error"
           THEN r.error # {} /\ ResultKeys \cap keys = {}
           ELSE (ResultKeys \cup {"error"}) \cap keys = {}

\* C3: an exception raised at any step of download_video is caught: the call
\* ends with the task in status error carrying the cause, the handler leaves
\* the task's progress and every other registry entry as they were, and the
\* call no longer holds a pool thread.
C3_Handled(j) ==
    pc[j] = "done" /\ exc[j] # ""
        => /\ Task(j).status = "error"
           /\ Get(Task(j), "error") = {exc[j]}
           /\ j \notin Busy

C3_HandlerStep(j) ==
    (pc'[j] # pc[j] /\ ({pc[j], pc'[j]} \cap {"L368", "L369"} # {}))
        => /\ tasks'[jid[j]].progress = tasks[jid[j]].progress
           /\ \A id \in DOMAIN tasks \ {jid[j]} : tasks'[id] = tasks[id]

C3_ExceptionBecomesError ==
    [][\A j \in Jobs :
          /\ (exc[j] = "" /\ exc'[j] # "" => pc'[j] = "L368")
          /\ C3_HandlerStep(j)
          /\ C3_Handled(j)']_vars

\* C3 witness: a fetch that raised at 50% ended in error with the progress
\* still 50, beside another task that went on to ready.
C3_Witness ==
    \E j, k \in Jobs :
        /\ pc[j] = "done" /\ exc[j] = "FetchError"
        /\ Task(j).status = "error" /\ Task(j).progress = 50
        /\ pc[k] = "done" /\ Task(k).status = "ready"

\* C4: the expired sweep removes a record only when its file is gone; a
\* record whose file deletion failed stays in the table with its file on
\* disk, and the next sweep selects it again.
C4_FailedDeletionKeepsRecord ==
    [][ /\ \A id \in DOMAIN db :
              id \notin DOMAIN db' => db[id].filepath \notin converted'
        /\ \A id \in gc_failed' :
              id \in DOMAIN db' /\ db'[id].filepath \in converted'
        /\ (gc_pc = "idle" /\ gc_pc' = "L94"
              => gc_failed \subseteq {r.id : r \in gc_expired'}) ]_vars

\* C4 witness: a sweep has selected again a record whose deletion failed in
\* an earlier sweep; record and file are both still there.
C4_Witness ==
    /\ gc_pc = "L94"
    /\ \E r \in gc_expired :
          /\ r.id \in gc_failed
          /\ r.id \in DOMAIN db
          /\ r.filepath \in converted

\* C5: the collector never deletes a staging file whose task is in flight,
\* and never deletes the file or the record of a task that has not expired.
C5_CollectorSparesLiveWork ==
    [][gc_pc # "idle" /\ gcvars' # gcvars
          => /\ \A f \in DOMAIN staging \ DOMAIN staging' :
                   tasks[f[1]].status \notin InFlight
             /\ \A id \in DOMAIN db :
                   db[id].expiry_timestamp >= now
                       => /\ id \in DOMAIN db'
                          /\ (db[id].filepath \in converted
                                 => db[id].filepath \in converted')]_vars

\* C6: every record has expiry_timestamp = created_at + max(7200, duration).
C6_ExpiryFromCreatedAt ==
    \A id \in DOMAIN db :
        db[id].expiry_timestamp =
            db[id].created_at + Max(7200, db[id].duration_seconds)

\* C7: calculate_expiry(d) is 7200 for d <= 7200 and d for d > 7200, and the
\* call touches no task, record or file.
C7_RetentionIsMax ==
    /\ expiry_ret # -1
          => expiry_ret = IF duration_arg <= 7200 THEN 7200 ELSE duration_arg
    /\ tasks = <<>> /\ db = <<>> /\ staging = <<>> /\ converted = {}

\* C7 witness: a 10000-second video is retained 10000 seconds.
C7_Witness == duration_arg = 10000 /\ expiry_ret = 10000

\* C8: while a task is downloading its progress never decreases.
C8_ProgressMonotone ==
    [][\A id \in DOMAIN tasks :
          tasks[id].status = "downloading" /\ tasks'[id].status = "downloading"
              => tasks'[id].progress >= tasks[id].progress]_vars

\* C9: every task's progress is within 0..100.
C9_ProgressInRange ==
    \A id \in DOMAIN tasks : tasks[id].progress \in 0..100

\* C10: a task in a terminal state has no file left in downloaded/.
C10_NoStagingWhenTerminal ==
    \A id \in DOMAIN tasks :
        tasks[id].status \in {"ready", "error"} => Glob(id) = {}

\* C11: a task that ends in error has no file in converted/ and no record;
\* a retained file or a record exists only for a task that reaches ready.
C11_ErrorLeavesNothing ==
    \A j \in Jobs :
        pc[j] = "done" /\ Task(j).status = "error"
            => /\ final_path(jid[j]) \notin converted
               /\ jid[j] \notin DOMAIN db

\* C20: a task whose status is converting or ready has progress 100.
C20_ConvertingIsComplete ==
    \A id \in DOMAIN tasks :
        tasks[id].status \in {"converting", "ready"}
            => tasks[id].progress = 100

\* Positions of download_video after the record has been written
AfterRecord == {"L361", "L362", "L363", "L364", "L365", "done"}

\* The task's file and record are gone and no call is left that could still
\* produce them
Gone(task_id) ==
    /\ task_id \notin DOMAIN db
    /\ final_path(task_id) \notin converted
    /\ \A j \in Jobs : jid[j] = task_id => pc[j] \in AfterRecord

\* C12: a cleanup_expired run selects every record whose expiry has passed;
\* when the deletion of its file succeeds the file and then the record are
\* removed, and from then on download_file answers 404 for that id, whether
\* the registry still holds the task or not.
C12_ExpiredIsReclaimed ==
    [][ /\ (gc_pc = "idle" /\ gc_pc' = "L94"
              => \A id \in DOMAIN db :
                    db[id].expiry_timestamp < now
                        => [id |-> id, filepath |-> db[id].filepath]
                               \in gc_expired')
        /\ (gc_pc = "L94" /\ gc_pc' = "L100"
              => /\ gc_record' \in gc_expired
                 /\ gc_record'.filepath \notin converted')
        /\ (gc_pc = "L100" /\ gc_pc' = "L94"
              => /\ gc_record.id \notin DOMAIN db'
                 /\ gc_record.filepath \notin converted'
                 /\ download_file(gc_record.id)'.code = 404)
        /\ \A id \in 1..nsub :
              Gone(id) => Gone(id)' /\ download_file(id)'.code = 404 ]_vars

\* C12 witness: the sweep has removed file and record of a task the registry
\* still holds as ready; download_file finds the registry's path empty.
C12_Witness ==
    \E id \in DOMAIN tasks :
        /\ tasks[id].status = "ready"
        /\ "filepath" \in DOMAIN tasks[id]
        /\ deleted_count = 1
        /\ Gone(id)
        /\ download_file(id).error = "File no longer exists"

\* C13 as stated: the second of two cleanup_expired runs in a row returns a
\* deleted count of 0.
C13_SecondRunDeletesNothing ==
    twice.phase = "end" => deleted_count = 0

\* C13: when every file deletion of the first run succeeded, the second of
\* two cleanup_expired runs in a row selects nothing, returns 0 and leaves
\* the table and converted/ as they were; otherwise it selects exactly the
\* records whose deletion failed in the first run.
C13_SecondRunAfterCleanFirst ==
    [][twice.phase = "run2"
          => /\ (gc_pc = "idle" /\ gc_pc' = "L94"
                    => {r.id : r \in gc_expired'} = gc_failed)
             /\ (~twice.failed1
                    => /\ db' = db
                       /\ converted' = converted
                       /\ deleted_count' = 0)]_vars

\* C13 witness: the first run deleted a record and its file, nothing failed,
\* and the second run has returned 0.
C13_Witness ==
    /\ twice.phase = "end"
    /\ ~twice.failed1
    /\ twice.deleted1 = 1
    /\ deleted_count = 0

\* C14 as stated: the orphan sweep leaves every staging file of age at most
\* 3600 s in place, removes every staging file older than that, and touches
\* neither converted/ nor the table.
C14_OrphanSweepExact ==
    [][gc_pc = "L117" /\ gc_files' # gc_files
          => /\ db' = db
             /\ converted' = converted
             /\ \A f \in (gc_files \ gc_files') \cap DOMAIN staging :
                   IF now - staging[f] > 3600
                   THEN f \notin DOMAIN staging'
                   ELSE staging' = staging]_vars

\* C14: the orphan sweep leaves every staging file of age at most 3600 s in
\* place; a file older than that is removed, or left as it was when its
\* unlink fails; no other file, nothing of converted/ and no record changes.
C14_OrphanSweepOnlyOld ==
    [][gc_pc = "L117" /\ gc_files' # gc_files
          => /\ db' = db
             /\ converted' = converted
             /\ \A f \in (gc_files \ gc_files') \cap DOMAIN staging :
                   IF now - staging[f] > 3600
                   THEN staging' = Without(staging, f) \/ staging' = staging
                   ELSE staging' = staging]_vars

\* C14 witness: after a sweep at 3601 s a failed task's file written at 1 s
\* (age 3600) is still in downloaded/ and its file written at 0 s is not.
C14_Witness ==
    /\ gc_pc = "idle"
    /\ now = 3601
    /\ \E j \in Jobs :
          /\ pc[j] = "done" /\ exc[j] = "FetchError"
          /\ <<jid[j], 1>> \notin DOMAIN staging
          /\ <<jid[j], 2>> \in DOMAIN staging
          /\ staging[<<jid[j], 2>>] = 1

\* The identifiers drawn so far and one that no submission has drawn
KnownIds == 1..(nsub + 1)

\* C15: get_status answers from the registry when it holds the task (its
\* status and progress), else from the table (ready, with the record's title
\* and expiry), else 404; it answers for every id in every state.
C15_StatusRegistryThenStore ==
    \A id \in KnownIds :
        LET r == get_status(id)
        IN /\ r.code \in {200, 404}
           /\ id \in DOMAIN tasks
                 => /\ r.code = 200
                    /\ r.body.status = tasks[id].status
                    /\ r.body.progress = tasks[id].progress
           /\ id \notin DOMAIN tasks /\ id \in DOMAIN db
                 => /\ r.code = 200
                    /\ r.body = [status |-> "ready",
                                 title |-> {db[id].title},
                                 expiry |-> {db[id].expiry_timestamp}]
           /\ id \notin DOMAIN tasks /\ id \notin DOMAIN db
                 => r.code = 404

\* C15 witness: after a restart the registry is empty and the finished
\* task's status is answered from its record.
C15_Witness ==
    /\ tasks = <<>>
    /\ 1 \in DOMAIN db
    /\ get_status(1).body.status = "ready"
    /\ get_status(2).code = 404

\* C16: download_file takes the path from the registry when the task has a
\* filepath there, else from the record; it sends a file only if one exists
\* at that path, and answers 404 otherwise and when there is neither a
\* registry filepath nor a record (a task queued, downloading, converting
\* without record, or in error).
C16_FileRegistryThenStore ==
    \A id \in KnownIds :
        LET r == download_file(id)
            inreg == id \in DOMAIN tasks /\ "filepath" \in DOMAIN tasks[id]
        IN /\ r.code \in {200, 404}
           /\ r.code = 200 => r.filepath \in converted
           /\ inreg
                 => /\ (r.code = 200 => r.filepath = tasks[id].filepath)
                    /\ (r.code = 404 <=> tasks[id].filepath \notin converted)
           /\ ~inreg /\ id \in DOMAIN db
                 => /\ (r.code = 200 => r.filepath = db[id].filepath)
                    /\ (r.code = 404 <=> db[id].filepath \notin converted)
           /\ ~inreg /\ id \notin DOMAIN db => r.code = 404
           /\ id \in DOMAIN tasks /\ id \notin DOMAIN db
                 /\ tasks[id].status \in InFlight \cup {"error"}
                 => r.code = 404

\* C16 witness: the registry holds the task as ready with its filepath and
\* the record is still in the table, but the collector has just deleted the
\* file: download_file answers 404.
C16_Witness ==
    /\ gc_pc = "L100"
    /\ \E id \in DOMAIN tasks \cap DOMAIN db :
          /\ "filepath" \in DOMAIN tasks[id]
          /\ download_file(id).error = "File no longer exists"

\* C19: at most 3 tasks are downloading or converting at any time, however
\* many were submitted; every task beyond those is queued, ready or in error.
C19_AtMostThreeRunning ==
    /\ Cardinality({id \in DOMAIN tasks :
                       tasks[id].status \in {"downloading", "converting"}}) <= 3
    /\ \A j \in Jobs :
          pc[j] # "none" /\ j \notin Busy
              => Task(j).status \in {"queued", "ready", "error"}

\* C19 witness: three tasks are downloading or converting and the fourth
\* submission waits in the queue.
C19_Witness ==
    /\ Cardinality({id \in DOMAIN tasks :
                       tasks[id].status \in {"downloading", "converting"}}) = 3
    /\ \E j \in Jobs : pc[j] = "queued" /\ Task(j).status = "queued"

\* C17: every submitted call leaves the queue only by being picked up by a
\* pool thread, and every submission eventually ends with its task ready or
\* in error.
C17_EverySubmissionEnds ==
    /\ [][\A j \in Jobs :
             pc[j] = "queued" => pc'[j] \in {"queued", "L251"}]_vars
    /\ \A j \in Jobs :
          pc[j] = "queued"
              ~> (pc[j] = "done" /\ Task(j).status \in {"ready", "error"})

\* C17 witness: a submission that had to wait for a pool thread has ended,
\* as have the three before it, some ready and some in error.
C17_Witness ==
    /\ \A j \in 1..(max_workers + 1) : pc[j] = "done"
    /\ \E j \in Jobs : pc[j] = "done" /\ Task(j).status = "ready"
    /\ \E j \in Jobs : pc[j] = "done" /\ Task(j).status = "error"

\* C18: start_download registers the task under an id that is neither a key
\* of the registry nor the id of a record nor the id of an earlier
\* submission, as a fresh entry (queued, progress 0), and leaves every
\* existing entry and record unchanged.
C18_FreshTaskId ==
    [][nsub' = nsub + 1
          => LET task_id == jid'[nsub + 1]
             IN /\ task_id \notin DOMAIN tasks
                /\ task_id \notin DOMAIN db
                /\ \A j \in 1..nsub : jid[j] # task_id
                /\ tasks'[task_id].status = "queued"
                /\ tasks'[task_id].progress = 0
                /\ \A id \in DOMAIN tasks : tasks'[id] = tasks[id]
                /\ db' = db]_vars

\* C21: every record of the table names a file that exists in converted/,
\* except the one record whose file cleanup_expired has just deleted and
\* whose removal is its next statement; a record is therefore written only
\* once its file is in converted/.
C21_RecordHasFile ==
    \A id \in DOMAIN db :
        \/ db[id].filepath \in converted
        \/ /\ gc_pc = "L100"
           /\ gc_record = [id |-> id, filepath |-> db[id].filepath]

\* C21 witness: the collector has deleted the file of an expired record and
\* has not yet removed the record.
C21_Witness ==
    /\ gc_pc = "L100"
    /\ gc_record.id \in DOMAIN db
    /\ db[gc_record.id].filepath \notin converted

\* C22: cleanup_expired selects exactly the records whose expiry_timestamp
\* is below the current time, and a record whose expiry_timestamp is at or
\* above it stays in the table unchanged, with its file, through every step
\* of every collector run.
C22_UnexpiredSurvives ==
    [][ /\ (gc_pc = "idle" /\ gc_pc' = "L94"
              => /\ \A r \in gc_expired' :
                       /\ r.id \in DOMAIN db
                       /\ r.filepath = db[r.id].filepath
                       /\ db[r.id].expiry_timestamp < now
                 /\ \A id \in DOMAIN db :
                       db[id].expiry_timestamp < now
                           => \E r \in gc_expired' : r.id = id)
        /\ \A id \in DOMAIN db :
              db[id].expiry_timestamp >= now
                  => /\ id \in DOMAIN db'
                     /\ db'[id] = db[id]
                     /\ (db[id].filepath \in converted
                            => db[id].filepath \in converted') ]_vars

\* C22 witness: a collector run at the very second a record expires has
\* selected nothing; record and file are in place.
C22_Witness ==
    /\ gc_pc = "L94"
    /\ gc_expired = {}
    /\ \E id \in DOMAIN db :
          /\ db[id].expiry_timestamp = now
          /\ db[id].filepath \in converted

\* A task whose registry entry was lost in a restart
Abandoned(task_id) == task_id <= nsub /\ task_id \notin DOMAIN tasks

\* C23: once a restart has lost a task's registry entry, get_status answers
\* 404 for its id unless its record is in the table, and every file the task
\* left in downloaded/ or converted/ is eventually removed by the collector.
C23_AbandonedFilesReclaimed ==
    /\ [](\A id \in Jobs :
             Abandoned(id)
                 => (get_status(id).code = 404 <=> id \notin DOMAIN db))
    /\ \A id \in Jobs :
          Abandoned(id)
              ~> (Glob(id) = {} /\ final_path(id) \notin converted)
====
